---- MODULE Spec2Model ----
(***************************************************************************)
(* Model of node_file_server.js: a clustered static file server.           *)
(*                                                                         *)
(*   Spec        the supervisor (master) branch and the workers'           *)
(*               connection-tracking middleware, with the IPC channel.     *)
(*   SpecStatic  one request through the app.use('/static') handler:       *)
(*               path resolution, sandbox check, primary/alt lookup and    *)
(*               streamFile (range parsing, gzip decision, streaming).     *)
(*                                                                         *)
(* JavaScript strings are sequences of one-character strings.  JavaScript  *)
(* numbers are <<n>> for the integer n and <<>> for NaN.                   *)
(***************************************************************************)
EXTENDS Integers, Sequences, FiniteSets, TLC

(***************************************************************************)
(* String primitives                                                       *)
(***************************************************************************)

\* String.prototype.startsWith
StartsWith(s, p) ==
    /\ Len(p) <= Len(s)
    /\ SubSeq(s, 1, Len(p)) = p

\* String.prototype.indexOf, 1-based; 0 when absent
IndexOf(s, p) ==
    LET hits == {i \in 1..(Len(s) - Len(p) + 1) : SubSeq(s, i, i + Len(p) - 1) = p}
    IN  IF hits = {} THEN 0 ELSE CHOOSE i \in hits : \A j \in hits : i <= j

\* String.prototype.includes
Includes(s, p) == IndexOf(s, p) # 0

\* String.prototype.replace with a string/regex-literal pattern: the first
\* occurrence only
ReplaceFirst(s, p, r) ==
    LET i == IndexOf(s, p)
    IN  IF i = 0 THEN s
        ELSE SubSeq(s, 1, i - 1) \o r \o SubSeq(s, i + Len(p), Len(s))

\* String.prototype.split on a one-character separator
RECURSIVE Split(_, _)
Split(s, sep) ==
    LET i == IndexOf(s, <<sep>>)
    IN  IF i = 0 THEN <<s>>
        ELSE <<SubSeq(s, 1, i - 1)>> \o Split(SubSeq(s, i + 1, Len(s)), sep)

UpperToLower ==
    [c \in {"A","B","C","D","E","F","G","H","I","J","K","L","M","N","O","P",
            "Q","R","S","T","U","V","W","X","Y","Z"} |->
       CASE c = "A" -> "a" [] c = "B" -> "b" [] c = "C" -> "c" [] c = "D" -> "d"
         [] c = "E" -> "e" [] c = "F" -> "f" [] c = "G" -> "g" [] c = "H" -> "h"
         [] c = "I" -> "i" [] c = "J" -> "j" [] c = "K" -> "k" [] c = "L" -> "l"
         [] c = "M" -> "m" [] c = "N" -> "n" [] c = "O" -> "o" [] c = "P" -> "p"
         [] c = "Q" -> "q" [] c = "R" -> "r" [] c = "S" -> "s" [] c = "T" -> "t"
         [] c = "U" -> "u" [] c = "V" -> "v" [] c = "W" -> "w" [] c = "X" -> "x"
         [] c = "Y" -> "y" [] c = "Z" -> "z"]

\* String.prototype.toLowerCase
ToLowerCase(s) ==
    [i \in 1..Len(s) |-> IF s[i] \in DOMAIN UpperToLower THEN UpperToLower[s[i]] ELSE s[i]]

(***************************************************************************)
(* JavaScript numbers and parseInt                                         *)
(***************************************************************************)

NaN == <<>>
Num(n) == <<n>>
IsNaN(x) == x = NaN
Val(x) == x[1]

\* Comparisons and arithmetic with NaN: every comparison with NaN is false,
\* every sum with NaN is NaN
JsGe(a, b) == ~IsNaN(a) /\ ~IsNaN(b) /\ Val(a) >= Val(b)
JsLt(a, b) == ~IsNaN(a) /\ ~IsNaN(b) /\ Val(a) < Val(b)
JsSub(a, b) == IF IsNaN(a) \/ IsNaN(b) THEN NaN ELSE Num(Val(a) - Val(b))
JsAdd(a, b) == IF IsNaN(a) \/ IsNaN(b) THEN NaN ELSE Num(Val(a) + Val(b))

DigitVal ==
    [c \in {"0","1","2","3","4","5","6","7","8","9"} |->
       CASE c = "0" -> 0 [] c = "1" -> 1 [] c = "2" -> 2 [] c = "3" -> 3
         [] c = "4" -> 4 [] c = "5" -> 5 [] c = "6" -> 6 [] c = "7" -> 7
         [] c = "8" -> 8 [] c = "9" -> 9]

\* The characters parseInt skips before the digits (StrWhiteSpaceChar):
\* space, TAB, LF, FF, CR, then VT (U+000B), NBSP (U+00A0), U+FEFF and
\* U+1680.  The other space separators of that class (U+2000 to U+200A,
\* U+2028, U+2029, U+202F, U+205F, U+3000) lie above U+00FF and cannot
\* occur in a header value, which Node decodes one byte to one character.
WhiteSpace ==
    { " ", "\t", "\n", "\f", "\r",
      "", " ", "﻿", " " }

\* the string left after the white space parseInt skips
RECURSIVE SkipSpaces(_)
SkipSpaces(s) == IF Len(s) > 0 /\ s[1] \in WhiteSpace THEN SkipSpaces(Tail(s)) ELSE s

\* the longest prefix of s made of decimal digits
RECURSIVE DigitPrefix(_)
DigitPrefix(s) ==
    IF Len(s) > 0 /\ s[1] \in DOMAIN DigitVal THEN <<s[1]>> \o DigitPrefix(Tail(s)) ELSE <<>>

RECURSIVE DigitsValue(_)
DigitsValue(d) ==
    IF d = <<>> THEN 0 ELSE 10 * DigitsValue(SubSeq(d, 1, Len(d) - 1)) + DigitVal[d[Len(d)]]

\* parseInt(s, 10): leading white space, an optional sign, then the longest
\* run of digits; NaN when there is no digit
ParseInt(s) ==
    LET t    == SkipSpaces(s)
        neg  == Len(t) > 0 /\ t[1] = "-"
        sgn  == Len(t) > 0 /\ t[1] \in {"-", "+"}
        body == IF sgn THEN Tail(t) ELSE t
        d    == DigitPrefix(body)
    IN  IF d = <<>> THEN NaN
        ELSE Num(IF neg THEN 0 - DigitsValue(d) ELSE DigitsValue(d))

(***************************************************************************)
(* path module (POSIX)                                                     *)
(***************************************************************************)

\* normalizeString: drop empty and "." components, let ".." pop one
\* component and be dropped at the root of an absolute path
RECURSIVE NormalizeSegs(_, _)
NormalizeSegs(segs, acc) ==
    IF segs = <<>> THEN acc
    ELSE LET h == Head(segs)
         IN  IF h = <<>> \/ h = <<".">> THEN NormalizeSegs(Tail(segs), acc)
             ELSE IF h = <<".", ".">>
                  THEN NormalizeSegs(Tail(segs),
                                     IF acc = <<>> THEN acc ELSE SubSeq(acc, 1, Len(acc) - 1))
                  ELSE NormalizeSegs(Tail(segs), Append(acc, h))

RECURSIVE JoinAbs(_)
JoinAbs(segs) ==
    IF segs = <<>> THEN <<>> ELSE <<"/">> \o Head(segs) \o JoinAbs(Tail(segs))

\* path.resolve(path.join(dir, rel)) for an absolute dir
PathResolveJoin(dir, rel) ==
    LET joined == IF rel = <<>> THEN dir ELSE dir \o <<"/">> \o rel
        segs   == NormalizeSegs(Split(joined, "/"), <<>>)
    IN  IF segs = <<>> THEN <<"/">> ELSE JoinAbs(segs)

\* path.extname
ExtName(p) ==
    LET parts == Split(p, "/")
        base  == parts[Len(parts)]
        dots  == {i \in 1..Len(base) : base[i] = "."}
        d     == IF dots = {} THEN 0 ELSE CHOOSE i \in dots : \A j \in dots : j <= i
    IN  IF d <= 1 \/ base = <<".", ".">> THEN <<>>
        ELSE SubSeq(base, d, Len(base))

(***************************************************************************)
(* Worker configuration (lines 41-42) and the pure helpers of the          *)
(* /static handler                                                         *)
(***************************************************************************)

\* path.resolve(process.env.DLC_DIRECTORY || 'dlc') with the server started
\* in /srv
baseDirectory == <<"/","s","r","v","/","d","l","c">>

\* path.resolve(path.join(baseDirectory, 'dlc'))
altDirectory == PathResolveJoin(baseDirectory, <<"d","l","c">>)

DefaultResource == <<"/","d","l","c","/","D","L","C","I","n","d","e","x",".","z","i","p">>

\* while (relativePath.includes('//')) relativePath = relativePath.replace('//', '/')
RECURSIVE CollapseSlashes(_)
CollapseSlashes(s) ==
    IF Includes(s, <<"/","/">>) THEN CollapseSlashes(ReplaceFirst(s, <<"/","/">>, <<"/">>)) ELSE s

\* lines 96-107: the relative path joined onto each root
RelativePath(reqPath) ==
    LET a == CollapseSlashes(reqPath)
        b == IF a = <<"/">> \/ a = <<>> THEN DefaultResource ELSE a
    IN  IF StartsWith(b, <<"/">>) THEN Tail(b) ELSE b

PrimaryPath(reqPath) == PathResolveJoin(baseDirectory, RelativePath(reqPath))

AltPath(reqPath) == PathResolveJoin(altDirectory, RelativePath(reqPath))

\* line 112, negated: the request is not answered 403
SandboxOk(primary) ==
    StartsWith(primary, baseDirectory) \/ StartsWith(primary, altDirectory)

\* getContentType
GetContentType(filePath) ==
    LET ext == ToLowerCase(ExtName(filePath))
    IN  CASE ext = <<".","h","t","m","l">> -> "text/html"
          [] ext = <<".","h","t","m">> -> "text/html"
          [] ext = <<".","c","s","s">> -> "text/css"
          [] ext = <<".","j","s">> -> "application/javascript"
          [] ext = <<".","j","s","o","n">> -> "application/json"
          [] ext = <<".","p","n","g">> -> "image/png"
          [] ext = <<".","j","p","g">> -> "image/jpeg"
          [] ext = <<".","j","p","e","g">> -> "image/jpeg"
          [] ext = <<".","g","i","f">> -> "image/gif"
          [] ext = <<".","s","v","g">> -> "image/svg+xml"
          [] ext = <<".","p","d","f">> -> "application/pdf"
          [] ext = <<".","z","i","p">> -> "application/zip"
          [] ext = <<".","t","x","t">> -> "text/plain"
          [] ext = <<".","x","m","l">> -> "application/xml"
          [] OTHER -> "application/octet-stream"

\* isCompressibleFile with archives counted as compressible
IsCompressibleFileOrArchive(filePath) ==
    ToLowerCase(ExtName(filePath)) \in
        { <<".","h","t","m","l">>, <<".","h","t","m">>, <<".","c","s","s">>,
          <<".","j","s">>, <<".","j","s","o","n">>, <<".","t","x","t">>,
          <<".","x","m","l">>, <<".","s","v","g">>, <<".","z","i","p">> }

\* isCompressibleFile
IsCompressibleFile(filePath) ==
    ToLowerCase(ExtName(filePath)) \in
        { <<".","h","t","m","l">>, <<".","h","t","m">>, <<".","c","s","s">>,
          <<".","j","s">>, <<".","j","s","o","n">>, <<".","t","x","t">>,
          <<".","x","m","l">>, <<".","s","v","g">> }

\* A request header: absent (undefined) or present with a string value
NoHeader == [present |-> FALSE, value |-> <<>>]
Header(v) == [present |-> TRUE, value |-> v]

\* JavaScript truthiness of a header value: undefined and '' are falsy
Truthy(h) == h.present /\ h.value # <<>>

LargeFileThreshold == 1024 * 1024 * 100
MinGzipSize == 1024
highWaterMark == 1024 * 1024 * 4

\* line 120
IsLargeFile(size) == size > LargeFileThreshold

\* lines 122-126
AcceptsGzip(size, acceptEncoding, filePath) ==
    /\ ~IsLargeFile(size)
    /\ Truthy(acceptEncoding)
    /\ Includes(acceptEncoding.value, <<"g","z","i","p">>)
    /\ IsCompressibleFile(filePath)
    /\ size > MinGzipSize

\* lines 153 and 183
StreamHighWaterMark(size) ==
    IF IsLargeFile(size) THEN highWaterMark \div 2 ELSE highWaterMark

\* line 130
RangeParts(range) == Split(ReplaceFirst(range, <<"b","y","t","e","s","=">>, <<>>), "-")

\* line 131
RangeStart(range) == ParseInt(RangeParts(range)[1])

\* line 132: parts[1] is undefined or '' when there is no end
RangeEnd(range, size) ==
    LET parts == RangeParts(range)
    IN  IF Len(parts) >= 2 /\ parts[2] # <<>> THEN ParseInt(parts[2]) ELSE Num(size - 1)

\* line 133
ChunkSize(start, end) == JsAdd(JsSub(end, start), Num(1))

\* line 135
RangeNotSatisfiable(start, end, size) ==
    \/ JsGe(start, Num(size))
    \/ JsGe(end, Num(size))
    \/ JsLt(start, Num(0))
    \/ JsLt(end, Num(0))

\* fs.createReadStream(filePath, {start, end}) validates its options
\* synchronously: both must be non-negative integers with start <= end
CreateReadStreamThrows(start, end) ==
    \/ IsNaN(start)
    \/ IsNaN(end)
    \/ Val(start) < 0
    \/ Val(end) < 0
    \/ Val(start) > Val(end)

(***************************************************************************)
(* Bounds and input sets                                                   *)
(***************************************************************************)

MaxCpus == 3          \* os.cpus().length ranges over 1..MaxCpus
MaxRespawns == 3      \* worker exits in one behaviour
MaxRequests == 2      \* requests begun, over all workers and respawns
MaxSegs == 3          \* path segments of a request path
MaxUnlinks == 1       \* files removed while a request is in flight

Max(a, b) == IF a >= b THEN a ELSE b

\* line 10
NumWorkers(cpuCount) == Max(2, cpuCount)

WorkerIds == 1..(NumWorkers(MaxCpus) + MaxRespawns)

\* The file system seen by a worker: absolute path -> kind
PrimaryFile   == baseDirectory \o <<"/","f",".","j","s">>
AltFile       == altDirectory \o <<"/","f",".","j","s">>
UpperFile     == baseDirectory \o <<"/","R",".","J","S">>
IndexFile     == altDirectory \o <<"/","D","L","C","I","n","d","e","x",".","z","i","p">>
AltIndexDir   == altDirectory \o <<"/","d","l","c">>
AltIndexFile  == AltIndexDir \o <<"/","D","L","C","I","n","d","e","x",".","z","i","p">>
SiblingDir    == <<"/","s","r","v","/","d","l","c","2">>
SiblingFile   == SiblingDir \o <<"/","f",".","j","s">>

FixedDirs == { <<"/">>, <<"/","s","r","v">>, baseDirectory, altDirectory }

Nodes == FixedDirs \cup {PrimaryFile, AltFile, UpperFile, IndexFile, AltIndexDir,
                         AltIndexFile, SiblingDir, SiblingFile}

\* a file system with the given kinds at the variable nodes; a directory
\* exists when something is stored in it
MkFs(pf, af, uf, xf, axf, sf) ==
    [n \in Nodes |->
        CASE n \in FixedDirs  -> "dir"
          [] n = PrimaryFile  -> pf
          [] n = AltFile      -> af
          [] n = UpperFile    -> uf
          [] n = IndexFile    -> xf
          [] n = AltIndexFile -> axf
          [] n = AltIndexDir  -> IF axf = "file" THEN "dir" ELSE "none"
          [] n = SiblingFile  -> sf
          [] n = SiblingDir   -> IF sf = "file" THEN "dir" ELSE "none"]

AllFs == { MkFs(pf, af, "none", xf, axf, "file") :
             pf \in {"none", "file", "dir"}, af \in {"none", "file", "dir"},
             xf \in {"none", "file"}, axf \in {"none", "file"} }

StreamFs == { MkFs("file", "none", "file", "file", "none", "none"),
              MkFs("none", "file", "none", "none", "file", "none") }

\* request paths: "/" followed by up to MaxSegs segments separated by "/";
\* an empty segment gives a repeated or trailing separator
Segments == { <<>>, <<".",".">>, <<"d","l","c">>, <<"d","l","c","2">>, <<"f",".","j","s">> }

RECURSIVE RawPath(_)
RawPath(segs) ==
    IF segs = <<>> THEN <<>> ELSE <<"/">> \o Head(segs) \o RawPath(Tail(segs))

AllPaths == { RawPath(f) : f \in UNION { [1..k -> Segments] : k \in 1..MaxSegs } }

StreamPaths == { <<"/">>, <<"/","f",".","j","s">>, <<"/","R",".","J","S">> }

\* Range header values: bytes=<t0>-<t1>, and a few other shapes
BytesEq == <<"b","y","t","e","s","=">>

RangeTokens == { <<>>, <<"0">>, <<"5">>, <<"\t","5">>, <<" ","5">>, <<"1","0">>, <<"1","0","0">>, <<"1","9","9">>,
                 <<"4","9","9">>, <<"5","0","0">>, <<"a","b","c">>, <<"1","0",",","2","0">> }

RangeHeaders ==
    { Header(BytesEq \o a \o <<"-">> \o b) : a \in RangeTokens, b \in RangeTokens }
    \cup { Header(<<>>),
           Header(BytesEq \o <<"5">>),
           Header(<<"5","-","1","0">>),
           Header(BytesEq \o <<"0","-","1","0",",","2","0","-","3","0">>),
           Header(<<"i","t","e","m","s","=","0","-","5">>) }

AcceptEncodings ==
    { NoHeader, Header(<<>>), Header(<<"g","z","i","p">>), Header(<<"b","r">>),
      Header(<<"d","e","f","l","a","t","e",","," ","g","z","i","p">>) }

FileSizes == { 0, 1, 500, MinGzipSize, MinGzipSize + 1, 5000,
               LargeFileThreshold, LargeFileThreshold + 1 }

(***************************************************************************)
(* State                                                                   *)
(***************************************************************************)

VARIABLES
    \* supervisor (master) process
    cpus,               \* os.cpus().length
    master,             \* "running", or "terminated" once the supervisor process ended
    workers,            \* cluster.workers: ids of the live workers
    nextWorkerId,       \* id the next cluster.fork() gives
    listeners,          \* workers that have the 'message' listener of line 32
    exitEvents,         \* 'exit' events not yet handled by the supervisor
    totalConnections,   \* line 26
    logged,             \* the value last written by the setInterval callback
    latest,             \* per worker: the count of the last message the listener got
    \* workers
    activeConnections,  \* per worker: line 61
    channel,            \* per worker: CONNECTION_COUNT messages in flight
    lastSent,           \* per worker: the count of the last message sent
    requests,           \* per worker: the requests begun, each with the state of
                        \* its response and the decrements made for it
    begun,              \* requests begun so far, over all workers
    \* one request in the /static handler
    req,                \* path and headers
    fs,                 \* the file system
    fileSize,           \* size of the regular files
    unlinks,            \* files removed since the request began
    pc,                 \* position of the handler
    primaryPath,
    altPath,
    filePath,           \* argument of the streamFile call, <<>> before it
    statSize,           \* stat.size inside streamFile, -1 before it
    res,                \* the response
    fileStream,         \* the fs.createReadStream of streamFile
    result              \* what streamFile returned: "none", "true" or "false"

clusterVars == <<cpus, master, workers, nextWorkerId, listeners, exitEvents, totalConnections,
                 logged, latest, activeConnections, channel, lastSent, requests, begun>>

staticVars == <<req, fs, fileSize, unlinks, pc, primaryPath, altPath, filePath,
                statSize, res, fileStream, result>>

vars == <<cpus, master, workers, nextWorkerId, listeners, exitEvents, totalConnections,
          logged, latest, activeConnections, channel, lastSent, requests, begun,
          req, fs, fileSize, unlinks, pc, primaryPath, altPath, filePath,
          statSize, res, fileStream, result>>

(***************************************************************************)
(* Supervisor and connection tracking (lines 13-37 and 61-78)              *)
(***************************************************************************)

\* lines 16-18, 26 and 31-37: numWorkers forks, then the 'message' listener
\* is registered on the workers that exist at that moment
InitCluster ==
    /\ cpus \in 1..MaxCpus
    /\ master = "running"
    /\ workers = 1..NumWorkers(cpus)
    /\ nextWorkerId = NumWorkers(cpus) + 1
    /\ listeners = 1..NumWorkers(cpus)
    /\ exitEvents = {}
    /\ totalConnections = 0
    /\ logged = 0
    /\ latest = [w \in WorkerIds |-> 0]
    /\ activeConnections = [w \in WorkerIds |-> 0]
    /\ channel = [w \in WorkerIds |-> <<>>]
    /\ lastSent = [w \in WorkerIds |-> 0]
    /\ requests = [w \in WorkerIds |-> <<>>]
    /\ begun = 0

\* a send that reads the counter before the change is applied to it
ProcessSendStale(w, count) ==
    /\ channel' = IF master = "running"
                  THEN [channel EXCEPT ![w] = Append(@, activeConnections[w])]
                  ELSE channel
    /\ lastSent' = [lastSent EXCEPT ![w] = activeConnections[w]]

\* process.send({ cmd: 'CONNECTION_COUNT', count }); once the supervisor
\* process has ended nothing reads the channel and the message is lost
ProcessSend(w, count) ==
    /\ channel' = IF master = "running"
                  THEN [channel EXCEPT ![w] = Append(@, count)]
                  ELSE channel
    /\ lastSent' = [lastSent EXCEPT ![w] = count]

RECURSIVE SumOver(_, _)
SumOver(f, S) ==
    IF S = {} THEN 0
    ELSE LET x == CHOOSE y \in S : TRUE IN f[x] + SumOver(f, S \ {x})

\* lines 63-78: a request enters the connection-tracking middleware
RequestBegin(w) ==
    /\ w \in workers
    /\ begun < MaxRequests
    /\ begun' = begun + 1
    /\ activeConnections' = [activeConnections EXCEPT ![w] = @ + 1]
    /\ ProcessSend(w, activeConnections[w] + 1)
    /\ requests' = [requests EXCEPT ![w] = Append(@, [state |-> "active", decrements |-> 0])]
    /\ UNCHANGED <<cpus, master, workers, nextWorkerId, listeners, exitEvents, totalConnections,
                   logged, latest>>

\* lines 67-70: the response emits 'finish'
ResFinish(w, i) ==
    /\ w \in workers
    /\ i \in DOMAIN requests[w]
    /\ requests[w][i].state = "active"
    /\ activeConnections' = [activeConnections EXCEPT ![w] = @ - 1]
    /\ ProcessSend(w, activeConnections[w] - 1)
    /\ requests' = [requests EXCEPT ![w][i] =
                      [state |-> "finished", decrements |-> @.decrements + 1]]
    /\ UNCHANGED <<cpus, master, workers, nextWorkerId, listeners, exitEvents, totalConnections,
                   logged, latest, begun>>

\* lines 72-75: the response emits 'close', after 'finish' or when the
\* connection is lost before the response finished
ResClose(w, i) ==
    /\ w \in workers
    /\ i \in DOMAIN requests[w]
    /\ requests[w][i].state \in {"active", "finished"}
    /\ activeConnections' = [activeConnections EXCEPT ![w] = @ - 1]
    /\ ProcessSend(w, activeConnections[w] - 1)
    /\ requests' = [requests EXCEPT ![w][i] =
                      [state |-> "closed", decrements |-> @.decrements + 1]]
    /\ UNCHANGED <<cpus, master, workers, nextWorkerId, listeners, exitEvents, totalConnections,
                   logged, latest, begun>>

\* lines 32-36: the supervisor receives the oldest message of a worker; a
\* worker without the listener has its message dropped
OnMessage(w) ==
    /\ master = "running"
    /\ channel[w] # <<>>
    /\ channel' = [channel EXCEPT ![w] = Tail(@)]
    /\ IF w \in listeners
       THEN /\ totalConnections' = Head(channel[w])
            /\ latest' = [latest EXCEPT ![w] = Head(channel[w])]
       ELSE UNCHANGED <<totalConnections, latest>>
    /\ UNCHANGED <<cpus, master, workers, nextWorkerId, listeners, exitEvents, logged,
                   activeConnections, lastSent, requests, begun>>

\* lines 27-29: the periodic log
LogInterval ==
    /\ master = "running"
    /\ logged # totalConnections
    /\ logged' = totalConnections
    /\ UNCHANGED <<cpus, master, workers, nextWorkerId, listeners, exitEvents, totalConnections,
                   latest, activeConnections, channel, lastSent, requests, begun>>

\* what the 'exit' event of a worker reports: an exit code or a signal
ExitReasons == {"code 0", "code 1", "SIGKILL"}

\* a worker process exits: its requests and its counter die with it; the
\* messages it has written to its channel are still read by the supervisor
WorkerExit(w) ==
    /\ master = "running"
    /\ w \in workers
    /\ Cardinality(exitEvents) + (nextWorkerId - 1 - NumWorkers(cpus)) < MaxRespawns
    /\ workers' = workers \ {w}
    /\ exitEvents' = exitEvents \cup {w}
    /\ activeConnections' = [activeConnections EXCEPT ![w] = 0]
    /\ requests' = [requests EXCEPT ![w] = <<>>]
    /\ lastSent' = [lastSent EXCEPT ![w] = 0]
    /\ UNCHANGED <<cpus, master, nextWorkerId, listeners, totalConnections, logged, latest,
                   channel, begun>>

\* an 'exit' handler that replaces only the workers that did not exit cleanly
OnExitUnlessClean(w, reason) ==
    /\ master = "running"
    /\ w \in exitEvents
    /\ reason \in ExitReasons
    /\ exitEvents' = exitEvents \ {w}
    /\ workers' = IF reason = "code 0" THEN workers ELSE workers \cup {nextWorkerId}
    /\ nextWorkerId' = IF reason = "code 0" THEN nextWorkerId ELSE nextWorkerId + 1
    /\ UNCHANGED <<cpus, master, listeners, totalConnections, logged, latest,
                   activeConnections, channel, lastSent, requests, begun>>

\* lines 20-23: cluster.on('exit', (worker, code, signal) => ...): fork a
\* replacement, whatever the code or signal the event reports
OnExit(w, reason) ==
    /\ master = "running"
    /\ w \in exitEvents
    /\ reason \in ExitReasons
    /\ exitEvents' = exitEvents \ {w}
    /\ workers' = workers \cup {nextWorkerId}
    /\ nextWorkerId' = nextWorkerId + 1
    /\ UNCHANGED <<cpus, master, listeners, totalConnections, logged, latest,
                   activeConnections, channel, lastSent, requests, begun>>

\* the requests of a worker whose process ends: a transfer still in flight
\* is cut
CutInFlight(rs) ==
    [i \in DOMAIN rs |-> IF rs[i].state = "active" THEN [rs[i] EXCEPT !.state = "cut"]
                         ELSE rs[i]]

\* The supervisor is told to stop (SIGTERM, SIGINT).  Lines 13-37 register no
\* signal handler and send the workers nothing, so the supervisor process
\* ends at once: nothing of its state remains and the messages it had not
\* read are lost.  The workers run on until each sees its IPC channel closed.
Shutdown ==
    /\ master = "running"
    /\ master' = "terminated"
    /\ channel' = [w \in WorkerIds |-> <<>>]
    /\ listeners' = {}
    /\ exitEvents' = {}
    /\ totalConnections' = 0
    /\ logged' = 0
    /\ latest' = [w \in WorkerIds |-> 0]
    /\ UNCHANGED <<cpus, workers, nextWorkerId, activeConnections, lastSent, requests, begun>>

\* a worker sees its IPC channel closed.  Lines 309-315 register no
\* 'disconnect' or signal handler, never call server.close() and set no
\* grace timer, so the worker process exits at once, with the transfers it
\* has in flight.
WorkerDisconnect(w) ==
    /\ master = "terminated"
    /\ w \in workers
    /\ workers' = workers \ {w}
    /\ requests' = [requests EXCEPT ![w] = CutInFlight(@)]
    /\ activeConnections' = [activeConnections EXCEPT ![w] = 0]
    /\ lastSent' = [lastSent EXCEPT ![w] = 0]
    /\ UNCHANGED <<cpus, master, nextWorkerId, listeners, exitEvents, totalConnections,
                   logged, latest, channel, begun>>

(***************************************************************************)
(* The /static handler (lines 95-246)                                      *)
(***************************************************************************)

\* A response on which nothing was written.  Only the headers the handler
\* sets itself are tracked; an absent header is the empty set.  headersSent
\* is the property of that name (the head is stored by writeHead), flushed
\* says that bytes of the response went to the client, headWrites counts the
\* calls that write the status and headers, closed says that the client
\* closed the connection, destroyed that the pipeline destroyed the response.
NewResponse ==
    [statusCode |-> 200, headersSent |-> FALSE, ended |-> FALSE, destroyed |-> FALSE,
     flushed |-> FALSE, headWrites |-> 0, closed |-> FALSE,
     body |-> "", contentRange |-> {}, contentLength |-> {}, contentType |-> {},
     contentEncoding |-> {}, acceptRanges |-> {}, cacheControl |-> {}]

\* opened says that the stream holds the open file descriptor, ended that it
\* has read its window to the end, error is the
\* code of the 'error' event of the stream, bytesSentAtError whether
\* response bytes had gone to the client when it was emitted
NoStream ==
    [created |-> FALSE, path |-> <<>>, start |-> {}, end |-> {},
     highWaterMark |-> 0, gzip |-> FALSE, opened |-> FALSE, ended |-> FALSE,
     error |-> "none", bytesSentAtError |-> FALSE]

\* res.status(code).send(text); on a connection the client has closed the
\* status is set and the response ended, but no head is stored and nothing
\* is written
Send(r, code, text) ==
    IF r.closed
    THEN [r EXCEPT !.statusCode = code, !.ended = TRUE, !.headWrites = @ + 1]
    ELSE [r EXCEPT !.statusCode = code, !.headersSent = TRUE, !.ended = TRUE,
                   !.body = text, !.flushed = TRUE, !.headWrites = @ + 1]

\* the same without the test of res.headersSent
SendRegardless(r, code, text) == Send(r, code, text)

\* the catch blocks and 'error' listeners: if (!res.headersSent) res.status(500).send(text)
SendIfUnsent(r, code, text) ==
    IF r.headersSent THEN r ELSE Send(r, code, text)

DigitChars == <<"0","1","2","3","4","5","6","7","8","9">>

\* the decimal numeral of a natural number
RECURSIVE Decimal(_)
Decimal(n) ==
    IF n < 10 THEN <<DigitChars[n + 1]>> ELSE Decimal(n \div 10) \o <<DigitChars[(n % 10) + 1]>>

\* ${x} in a template literal: the text of a number
ToText(x) ==
    IF IsNaN(x) THEN <<"N","a","N">>
    ELSE IF Val(x) < 0 THEN <<"-">> \o Decimal(0 - Val(x))
    ELSE Decimal(Val(x))

\* line 141: the template literal of the Content-Range value
ContentRangeValue(start, end, size) ==
    <<"b","y","t","e","s"," ">> \o ToText(start) \o <<" ","-"," ">> \o ToText(end)
        \o <<" ","/"," ">> \o ToText(Num(size))

\* lines 140-147
WriteHead206(r, start, end, size, path) ==
    [r EXCEPT !.statusCode = 206, !.headersSent = TRUE, !.headWrites = @ + 1,
              !.contentRange = {ContentRangeValue(start, end, size)},
              !.acceptRanges = {"bytes"},
              !.contentLength = {ChunkSize(start, end)},
              !.contentType = {GetContentType(path)},
              !.cacheControl = {"public, max-age=3600"}]

\* lines 167-180
WriteHead200(r, size, gzip, path) ==
    [r EXCEPT !.statusCode = 200, !.headersSent = TRUE, !.headWrites = @ + 1,
              !.contentLength = IF gzip THEN {} ELSE {Num(size)},
              !.contentType = {GetContentType(path)},
              !.cacheControl = {"public, max-age=3600"},
              !.acceptRanges = {"bytes"},
              !.contentEncoding = IF gzip THEN {"gzip"} ELSE {}]

\* lines 150-156
RangeStream(path, start, end, size) ==
    [created |-> TRUE, path |-> path, start |-> {start}, end |-> {end},
     highWaterMark |-> StreamHighWaterMark(size), gzip |-> FALSE, opened |-> FALSE, ended |-> FALSE,
     error |-> "none", bytesSentAtError |-> FALSE]

\* lines 182-186 and 195-205
FullStream(path, size, gzip) ==
    [created |-> TRUE, path |-> path, start |-> {}, end |-> {},
     highWaterMark |-> StreamHighWaterMark(size), gzip |-> gzip, opened |-> FALSE, ended |-> FALSE,
     error |-> "none", bytesSentAtError |-> FALSE]

\* fs.promises.access / fs.promises.stat on the current file system
Kind(p) == IF p \in DOMAIN fs THEN fs[p] ELSE "none"

\* fs.promises.access(p).then(() => true).catch(() => false)
Accessible(p) == Kind(p) # "none"

\* a test of existence in place of isFile(): directories pass
IsFileOrDirectory(p) == Kind(p) # "none"

\* (await fs.promises.stat(p)).isFile()
IsFile(p) == Kind(p) = "file"

InitRequest(p, r, ae, sz, f) ==
    /\ req = [path |-> p, range |-> r, acceptEncoding |-> ae]
    /\ fs = f
    /\ fileSize = sz
    /\ unlinks = 0
    /\ pc = "handler"
    /\ primaryPath = <<>>
    /\ altPath = <<>>
    /\ filePath = <<>>
    /\ statSize = -1
    /\ res = NewResponse
    /\ fileStream = NoStream
    /\ result = "none"

\* a request enters the handler: every path against every file system
\* without a Range header; every Range header, with and without gzip
\* accepted, against a file under the primary or the fallback root; every
\* Accept-Encoding header without a Range value against the paths that name
\* a file
InitStatic ==
    \/ \E p \in AllPaths, f \in AllFs :
         InitRequest(p, NoHeader, Header(<<"g","z","i","p">>), 5000, f)
    \/ \E p \in {<<"/","f",".","j","s">>}, r \in RangeHeaders,
          ae \in {NoHeader, Header(<<"g","z","i","p">>)}, sz \in FileSizes, f \in StreamFs :
         InitRequest(p, r, ae, sz, f)
    \/ \E p \in StreamPaths, r \in {NoHeader, Header(<<>>)}, ae \in AcceptEncodings,
          sz \in FileSizes, f \in StreamFs :
         InitRequest(p, r, ae, sz, f)

\* lines 96-114: resolve both candidates and check the sandbox
HandleStatic ==
    /\ pc = "handler"
    /\ primaryPath' = PrimaryPath(req.path)
    /\ altPath' = AltPath(req.path)
    /\ IF ~SandboxOk(PrimaryPath(req.path))
       THEN /\ res' = Send(res, 403, "Access denied")
            /\ pc' = "done"
       ELSE /\ res' = res
            /\ pc' = "accessPrimary"
    /\ UNCHANGED <<req, fs, fileSize, unlinks, filePath, statSize, fileStream, result>>

\* line 222
AccessPrimary ==
    /\ pc = "accessPrimary"
    /\ pc' = IF Accessible(primaryPath) THEN "statPrimary" ELSE "accessAlt"
    /\ UNCHANGED <<req, fs, fileSize, unlinks, primaryPath, altPath, filePath, statSize,
                   res, fileStream, result>>

\* lines 223-227; a stat that fails is caught at line 239
StatPrimary ==
    /\ pc = "statPrimary"
    /\ CASE Kind(primaryPath) = "none" ->
              /\ res' = SendIfUnsent(res, 500, "Server error")
              /\ pc' = "done"
              /\ filePath' = filePath
         [] IsFile(primaryPath) ->
              /\ res' = res
              /\ pc' = "streamFile"
              /\ filePath' = primaryPath
         [] OTHER ->
              /\ res' = res
              /\ pc' = "accessAlt"
              /\ filePath' = filePath
    /\ UNCHANGED <<req, fs, fileSize, unlinks, primaryPath, altPath, statSize,
                   fileStream, result>>

\* line 230, and line 238 when the access fails
AccessAlt ==
    /\ pc = "accessAlt"
    /\ IF Accessible(altPath)
       THEN /\ pc' = "statAlt"
            /\ res' = res
       ELSE /\ pc' = "done"
            /\ res' = Send(res, 404, "File not found")
    /\ UNCHANGED <<req, fs, fileSize, unlinks, primaryPath, altPath, filePath, statSize,
                   fileStream, result>>

\* lines 231-238
StatAlt ==
    /\ pc = "statAlt"
    /\ CASE Kind(altPath) = "none" ->
              /\ res' = SendIfUnsent(res, 500, "Server error")
              /\ pc' = "done"
              /\ filePath' = filePath
         [] IsFile(altPath) ->
              /\ res' = res
              /\ pc' = "streamFile"
              /\ filePath' = altPath
         [] OTHER ->
              /\ res' = Send(res, 404, "File not found")
              /\ pc' = "done"
              /\ filePath' = filePath
    /\ UNCHANGED <<req, fs, fileSize, unlinks, primaryPath, altPath, statSize,
                   fileStream, result>>

\* the code of the error with which the pipeline fails when the response
\* is closed before it finished
PrematureClose == "ERR_STREAM_PREMATURE_CLOSE"

\* lines 118-156 and 167-186: streamFile from its stat to the pipeline call
StreamFile ==
    /\ pc = "streamFile"
    /\ IF Kind(filePath) = "none"
       THEN \* stat rejects with ENOENT: line 210 returns false, line 226/234 returns
            /\ result' = "false"
            /\ pc' = "done"
            /\ UNCHANGED <<statSize, res, fileStream>>
       ELSE /\ statSize' = fileSize
            /\ IF Truthy(req.range)
               THEN LET start == RangeStart(req.range.value)
                        end   == RangeEnd(req.range.value, fileSize)
                    IN  IF RangeNotSatisfiable(start, end, fileSize)
                        THEN /\ res' = Send(res, 416, "Range Not Satisfiable")
                             /\ fileStream' = fileStream
                             /\ result' = "true"
                             /\ pc' = "done"
                        ELSE /\ res' = WriteHead206(res, start, end, fileSize, filePath)
                             /\ IF CreateReadStreamThrows(start, end)
                                THEN \* caught at line 208: headers are sent, line 216
                                     /\ fileStream' = fileStream
                                     /\ result' = "true"
                                     /\ pc' = "done"
                                ELSE /\ fileStream' = RangeStream(filePath, start, end, fileSize)
                                     /\ result' = result
                                     /\ pc' = "pipeline"
               ELSE LET gzip == AcceptsGzip(fileSize, req.acceptEncoding, filePath)
                    IN  /\ res' = WriteHead200(res, fileSize, gzip, filePath)
                        /\ fileStream' = FullStream(filePath, fileSize, gzip)
                        /\ result' = result
                        /\ pc' = "pipeline"
    /\ UNCHANGED <<req, fs, fileSize, unlinks, primaryPath, altPath, filePath>>

\* the read stream opens the file: from here on it holds the descriptor and
\* reads the file also when its name is removed.  The open is started by
\* createReadStream (lines 156, 186) and completes in a later turn, also
\* when the pipeline was rejected in between and streamFile has returned.
FileStreamOpen ==
    /\ pc \in {"pipeline", "done"}
    /\ fileStream.created
    /\ ~fileStream.opened
    /\ fileStream.error = "none"
    /\ Kind(filePath) = "file"
    /\ fileStream' = [fileStream EXCEPT !.opened = TRUE]
    /\ UNCHANGED <<req, fs, fileSize, unlinks, pc, primaryPath, altPath, filePath, statSize,
                   res, result>>

\* lines 165, 202 and 204: the first chunk goes to the response, the stored
\* head with it; without gzip the last chunk is written before the read
\* stream ends
PipelineData ==
    /\ pc = "pipeline"
    /\ fileStream.opened
    /\ fileStream.gzip \/ ~fileStream.ended
    /\ ~res.closed
    /\ ~res.flushed
    /\ res' = [res EXCEPT !.flushed = TRUE, !.body = "file"]
    /\ UNCHANGED <<req, fs, fileSize, unlinks, pc, primaryPath, altPath, filePath, statSize,
                   fileStream, result>>

\* lines 165 and 204: the read stream has read its window to the end; when
\* it is piped into the response the pipeline ends the response in the same
\* turn, when it is piped into gzip (line 202) the response is ended later
FileStreamEnd ==
    /\ pc = "pipeline"
    /\ fileStream.opened
    /\ ~fileStream.ended
    /\ ~res.closed
    /\ fileStream' = [fileStream EXCEPT !.ended = TRUE]
    /\ IF fileStream.gzip
       THEN UNCHANGED <<res, pc>>
       ELSE /\ res' = [res EXCEPT !.ended = TRUE, !.flushed = TRUE, !.body = "file"]
            /\ pc' = "finishing"
    /\ UNCHANGED <<req, fs, fileSize, unlinks, primaryPath, altPath, filePath, statSize,
                   result>>

\* line 202: gzip has compressed the whole file, the pipeline ends the response
GzipEnd ==
    /\ pc = "pipeline"
    /\ fileStream.gzip
    /\ fileStream.ended
    /\ ~res.closed
    /\ res' = [res EXCEPT !.ended = TRUE, !.flushed = TRUE, !.body = "file"]
    /\ pc' = "finishing"
    /\ UNCHANGED <<req, fs, fileSize, unlinks, primaryPath, altPath, filePath, statSize,
                   fileStream, result>>

\* lines 165-166, 202-207: the response emits 'finish', the pipeline
\* resolves, streamFile returns true
PipelineDone ==
    /\ pc = "finishing"
    /\ ~res.closed
    /\ result' = "true"
    /\ pc' = "done"
    /\ UNCHANGED <<req, fs, fileSize, unlinks, primaryPath, altPath, filePath, statSize,
                   res, fileStream>>

StreamErrorCodes == {"ENOENT", "EIO"}

\* lines 158-163 and 188-193, then 208-216: the read stream emits 'error':
\* ENOENT when the file cannot be opened (its name was removed after the
\* stat), EIO for a failed open or read.  The 'error' listener runs, the
\* pipeline destroys the response and rejects, the catch of streamFile runs.
\* Once the client has closed the connection the pipeline has destroyed the
\* read stream, and the error it emits is the premature close
\* (FileStreamDestroyed) whatever made its open or read fail.
FileStreamError(code) ==
    /\ pc = "pipeline"
    /\ ~res.closed
    /\ code \in StreamErrorCodes
    /\ fileStream.error = "none"
    /\ ~fileStream.ended
    /\ code = "ENOENT" => (~fileStream.opened /\ Kind(filePath) # "file")
    /\ LET listened == SendIfUnsent(res, 500, "Error streaming file")
           caught   == IF code = "ENOENT" THEN listened
                       ELSE SendIfUnsent(listened, 500, "Server error")
       IN  res' = [caught EXCEPT !.destroyed = TRUE]
    /\ fileStream' = [fileStream EXCEPT !.error = code, !.bytesSentAtError = res.flushed]
    /\ result' = IF code = "ENOENT" THEN "false" ELSE "true"
    /\ pc' = "done"
    /\ UNCHANGED <<req, fs, fileSize, unlinks, primaryPath, altPath, filePath, statSize>>

\* the client closes the connection while the request is handled: the
\* response emits 'close'; the handler goes on at its pending await
ConnectionClose ==
    /\ pc \notin {"handler", "done"}
    /\ ~res.closed
    /\ res' = [res EXCEPT !.closed = TRUE]
    /\ UNCHANGED <<req, fs, fileSize, unlinks, pc, primaryPath, altPath, filePath, statSize,
                   fileStream, result>>

\* lines 165 and 202-204, then 212-216: the pipeline finds the response
\* closed before it finished, destroys the response and the read stream and
\* rejects with a premature close; the catch of streamFile runs, whether or
\* not the open of the read stream has completed.
PipelineRejected ==
    /\ pc \in {"pipeline", "finishing"}
    /\ res.closed
    /\ res' = [SendIfUnsent(res, 500, "Server error") EXCEPT !.destroyed = TRUE]
    /\ result' = "true"
    /\ pc' = "done"
    /\ UNCHANGED <<req, fs, fileSize, unlinks, primaryPath, altPath, filePath, statSize,
                   fileStream>>

\* lines 158-163 and 188-193: the read stream that the pipeline destroyed
\* on a closed connection emits 'error' with the premature close, in a turn
\* of its own after its open has completed or failed (for whatever reason,
\* the file present or not), before or after the catch of streamFile; a
\* read stream that had ended emits nothing.
FileStreamDestroyed ==
    /\ pc \in {"pipeline", "done"}
    /\ res.closed
    /\ fileStream.created
    /\ fileStream.error = "none"
    /\ ~fileStream.ended
    /\ res' = [SendIfUnsent(res, 500, "Error streaming file") EXCEPT !.destroyed = TRUE]
    /\ fileStream' = [fileStream EXCEPT !.error = PrematureClose,
                                        !.bytesSentAtError = res.flushed]
    /\ UNCHANGED <<req, fs, fileSize, unlinks, pc, primaryPath, altPath, filePath, statSize,
                   result>>

\* another process removes a file the request still has to look at: one of
\* its candidates during the lookup, the chosen file from then on until the
\* read stream has ended, or while its open is still pending after
\* streamFile returned (removing any other file changes nothing the handler
\* reads)
Unlink(p) ==
    /\ \/ pc \notin {"handler", "finishing", "done"}
       \/ pc = "done" /\ fileStream.created /\ ~fileStream.opened /\ fileStream.error = "none"
    /\ unlinks < MaxUnlinks
    /\ p \in (IF filePath = <<>> THEN {primaryPath, altPath} ELSE {filePath})
    /\ p \in DOMAIN fs
    /\ fs[p] = "file"
    /\ fs' = [fs EXCEPT ![p] = "none"]
    /\ unlinks' = unlinks + 1
    /\ UNCHANGED <<req, fileSize, pc, primaryPath, altPath, filePath, statSize, res,
                   fileStream, result>>

(***************************************************************************)
(* Specifications                                                          *)
(***************************************************************************)

\* the handler before any request: the state the cluster specification keeps
IdleStatic ==
    /\ req = [path |-> <<"/">>, range |-> NoHeader, acceptEncoding |-> NoHeader]
    /\ fs = MkFs("none", "none", "none", "none", "none", "none")
    /\ fileSize = 0
    /\ unlinks = 0
    /\ pc = "done"
    /\ primaryPath = <<>>
    /\ altPath = <<>>
    /\ filePath = <<>>
    /\ statSize = -1
    /\ res = NewResponse
    /\ fileStream = NoStream
    /\ result = "none"

Init == InitCluster /\ IdleStatic

Next ==
    \/ \E w \in WorkerIds : RequestBegin(w) /\ UNCHANGED staticVars
    \/ \E w \in WorkerIds : \E i \in 1..MaxRequests : ResFinish(w, i) /\ UNCHANGED staticVars
    \/ \E w \in WorkerIds : \E i \in 1..MaxRequests : ResClose(w, i) /\ UNCHANGED staticVars
    \/ \E w \in WorkerIds : OnMessage(w) /\ UNCHANGED staticVars
    \/ LogInterval /\ UNCHANGED staticVars
    \/ \E w \in WorkerIds : WorkerExit(w) /\ UNCHANGED staticVars
    \/ \E w \in WorkerIds : \E reason \in ExitReasons : OnExit(w, reason) /\ UNCHANGED staticVars
    \/ Shutdown /\ UNCHANGED staticVars
    \/ \E w \in WorkerIds : WorkerDisconnect(w) /\ UNCHANGED staticVars

Spec == Init /\ [][Next]_vars

\* The worker bookkeeping of the supervisor (lines 16-23) taken alone: worker
\* exits, the 'exit' handler and the end of the supervisor.  Requests and
\* CONNECTION_COUNT messages read or write none of workers, exitEvents and
\* nextWorkerId.  The event loop runs the handler of every 'exit' event
\* that was emitted.
NextRespawn ==
    \/ \E w \in WorkerIds : WorkerExit(w) /\ UNCHANGED staticVars
    \/ \E w \in WorkerIds : \E reason \in ExitReasons : OnExit(w, reason) /\ UNCHANGED staticVars
    \/ Shutdown /\ UNCHANGED staticVars
    \/ \E w \in WorkerIds : WorkerDisconnect(w) /\ UNCHANGED staticVars

SpecRespawn ==
    /\ Init
    /\ [][NextRespawn]_vars
    /\ WF_vars(\E w \in WorkerIds : \E reason \in ExitReasons : OnExit(w, reason) /\ UNCHANGED staticVars)

\* The connection-tracking middleware (lines 61-78) and the supervisor's
\* listener, with workers that stay alive while the supervisor runs
NextMiddleware ==
    \/ \E w \in WorkerIds : RequestBegin(w) /\ UNCHANGED staticVars
    \/ \E w \in WorkerIds : \E i \in 1..MaxRequests : ResFinish(w, i) /\ UNCHANGED staticVars
    \/ \E w \in WorkerIds : \E i \in 1..MaxRequests : ResClose(w, i) /\ UNCHANGED staticVars
    \/ \E w \in WorkerIds : OnMessage(w) /\ UNCHANGED staticVars
    \/ LogInterval /\ UNCHANGED staticVars
    \/ Shutdown /\ UNCHANGED staticVars
    \/ \E w \in WorkerIds : WorkerDisconnect(w) /\ UNCHANGED staticVars

SpecMiddleware == Init /\ [][NextMiddleware]_vars

\* the supervisor right after start on one CPU, with no request begun
IdleCluster ==
    /\ InitCluster
    /\ cpus = 1

InitHandler == IdleCluster /\ InitStatic

NextStatic ==
    \/ HandleStatic /\ UNCHANGED clusterVars
    \/ AccessPrimary /\ UNCHANGED clusterVars
    \/ StatPrimary /\ UNCHANGED clusterVars
    \/ AccessAlt /\ UNCHANGED clusterVars
    \/ StatAlt /\ UNCHANGED clusterVars
    \/ StreamFile /\ UNCHANGED clusterVars
    \/ FileStreamOpen /\ UNCHANGED clusterVars
    \/ PipelineData /\ UNCHANGED clusterVars
    \/ FileStreamEnd /\ UNCHANGED clusterVars
    \/ GzipEnd /\ UNCHANGED clusterVars
    \/ PipelineDone /\ UNCHANGED clusterVars
    \/ PipelineRejected /\ UNCHANGED clusterVars
    \/ FileStreamDestroyed /\ UNCHANGED clusterVars
    \/ \E code \in StreamErrorCodes : FileStreamError(code) /\ UNCHANGED clusterVars
    \/ ConnectionClose /\ UNCHANGED clusterVars
    \/ \E p \in Nodes : Unlink(p) /\ UNCHANGED clusterVars

SpecStatic == InitHandler /\ [][NextStatic]_vars

(***************************************************************************)
(* Properties                                                              *)
(***************************************************************************)

\* p lies in the directory tree rooted at dir
InsideTree(p, dir) == p = dir \/ StartsWith(p, dir \o <<"/">>)

\* the handler wrote the head of a file response with this status
FileResponse(code) ==
    /\ res.headersSent
    /\ res.statusCode = code
    /\ filePath # <<>>
    /\ statSize >= 0

\* C1: every file served with 200 or 206 lies inside the primary root's
\* directory tree, and no read stream is opened on a file outside it.
C1_ServedInsideRoot ==
    /\ (FileResponse(200) \/ FileResponse(206)) => InsideTree(filePath, baseDirectory)
    /\ fileStream.created => InsideTree(fileStream.path, baseDirectory)

\* C2: a request whose response finished or closed has had the counter
\* decremented exactly once for it, and no request more than once.
C2_DecrementedOnce ==
    \A w \in WorkerIds : \A i \in DOMAIN requests[w] :
        /\ requests[w][i].decrements <= 1
        /\ requests[w][i].state \in {"finished", "closed"} => requests[w][i].decrements = 1

\* C3: totalConnections is the sum over the workers of the latest count
\* received from each, and so is every value logged.
C3_TotalIsSumOfLatest ==
    totalConnections = SumOver(latest, WorkerIds)

RangeBounds == {0, 5, 10, 100, 199, 499, 500}

\* the Content-Range value of the window [a, b] of a file of size S
BytesRange(a, b, S) ==
    <<"b","y","t","e","s"," ">> \o Decimal(a) \o <<"-">> \o Decimal(b) \o <<"/">> \o Decimal(S)

\* a header value without its spaces
RECURSIVE WithoutSpaces(_)
WithoutSpaces(v) ==
    IF v = <<>> THEN <<>>
    ELSE IF Head(v) = " " THEN WithoutSpaces(Tail(v))
    ELSE <<Head(v)>> \o WithoutSpaces(Tail(v))

\* C4: a 206 response carries a window 0 <= start <= end < size (read from
\* its Content-Range value, whatever the spacing of the value) and a
\* Content-Length of end - start + 1.
C4_WindowWithinFile ==
    FileResponse(206) =>
        \E a \in RangeBounds \cup {statSize - 1}, b \in RangeBounds \cup {statSize - 1} :
            /\ 0 <= a
            /\ a <= b
            /\ b < statSize
            /\ \E cr \in res.contentRange :
                   WithoutSpaces(cr) = WithoutSpaces(BytesRange(a, b, statSize))
            /\ res.contentLength = {Num(b - a + 1)}

AllDigits(t) == \A i \in 1..Len(t) : t[i] \in DOMAIN DigitVal

\* v has the single form bytes=<start>-<end> with decimal bounds, the end
\* possibly omitted
SingleRangeForm(v) ==
    /\ StartsWith(v, BytesEq)
    /\ LET parts == Split(SubSeq(v, Len(BytesEq) + 1, Len(v)), "-")
       IN  /\ Len(parts) = 2
           /\ parts[1] # <<>>
           /\ AllDigits(parts[1])
           /\ AllDigits(parts[2])

\* C5: once streamFile has seen a Range header that is not of the single
\* form, the response is 416 and no read stream exists.
C5_MalformedRangeIs416 ==
    (statSize >= 0 /\ req.range.present /\ ~SingleRangeForm(req.range.value)) =>
        /\ res.headWrites = 1
        /\ res.statusCode = 416
        /\ ~fileStream.created

\* C6: a 416 response carries Content-Range: bytes */<size> and no read
\* stream is opened.
C6_UnsatisfiedRangeHeader ==
    (res.headersSent /\ res.statusCode = 416) =>
        /\ res.contentRange = {<<"b","y","t","e","s"," ","*","/">> \o Decimal(statSize)}
        /\ ~fileStream.created

\* the response and the read stream are those of the window [a, b] of a
\* file of size S
ServesWindow(a, b, S) ==
    /\ res.headersSent
    /\ res.statusCode = 206
    /\ res.contentRange = {BytesRange(a, b, S)}
    /\ res.contentLength = {Num(b - a + 1)}
    /\ fileStream.created
    /\ fileStream.start = {Num(a)}
    /\ fileStream.end = {Num(b)}

\* C7: once streamFile has seen bytes=a-b with 0 <= a <= b < S, or bytes=a-
\* with a < S (b is then S-1), the response is 206 with the Content-Range
\* value "bytes a-b/S", Content-Length b-a+1 and a read stream bounded to
\* [a, b].
C7_ValidRangeServed ==
    statSize >= 0 =>
        \A a \in RangeBounds :
            /\ \A b \in RangeBounds :
                 (/\ req.range = Header(BytesEq \o Decimal(a) \o <<"-">> \o Decimal(b))
                  /\ a <= b
                  /\ b < statSize) => ServesWindow(a, b, statSize)
            /\ (/\ req.range = Header(BytesEq \o Decimal(a) \o <<"-">>)
                /\ a < statSize) => ServesWindow(a, statSize - 1, statSize)

\* C8: a request that carries a Range header never gets a gzip-encoded
\* response.
C8_RangeNeverGzip ==
    req.range.present => (res.contentEncoding = {} /\ ~fileStream.gzip)

\* C9: a 200 file response is gzip-encoded only if Accept-Encoding contains
\* gzip, the extension is compressible and 1024 < size < 100 MB; gzip-encoded
\* it has Content-Encoding: gzip and no Content-Length, otherwise
\* Content-Length is the file size and there is no Content-Encoding.
C9_GzipOnlyWhenAllHold ==
    (FileResponse(200) /\ fileStream.created) =>
        /\ fileStream.gzip =>
             /\ req.acceptEncoding.present
             /\ Includes(req.acceptEncoding.value, <<"g","z","i","p">>)
             /\ IsCompressibleFile(filePath)
             /\ statSize > 1024
             /\ statSize < 100 * 1024 * 1024
             /\ res.contentEncoding = {"gzip"}
             /\ res.contentLength = {}
        /\ ~fileStream.gzip =>
             /\ res.contentLength = {Num(statSize)}
             /\ res.contentEncoding = {}

\* C10: with the file system unchanged during the request, a request that
\* passes the sandbox check is answered from the primary candidate if that
\* is a regular file, else from the fallback candidate if that is one, else
\* with 404.
C10_PrimaryThenFallback ==
    (pc = "done" /\ primaryPath # <<>> /\ SandboxOk(primaryPath) /\ unlinks = 0) =>
        IF Kind(primaryPath) = "file"
        THEN filePath = primaryPath /\ res.headWrites = 1 /\ res.statusCode \in {200, 206, 416}
        ELSE IF Kind(altPath) = "file"
             THEN filePath = altPath /\ res.headWrites = 1 /\ res.statusCode \in {200, 206, 416}
             ELSE /\ res.headWrites = 1
                  /\ res.statusCode = 404
                  /\ filePath = <<>>
                  /\ ~fileStream.created

\* a directory at the primary candidate and a regular file at the fallback:
\* the fallback file was served
C10_Witness ==
    /\ pc = "done"
    /\ unlinks = 0
    /\ Kind(primaryPath) = "dir"
    /\ Kind(altPath) = "file"
    /\ filePath = altPath
    /\ res.ended
    /\ res.statusCode = 200
    /\ res.body = "file"

\* C11: an I/O error on the read stream that occurs before any response
\* byte went to the client is answered 500; one that occurs after bytes went
\* out writes no further status and only terminates the connection.
C11_StreamErrorAnswered ==
    fileStream.error \in StreamErrorCodes =>
        IF fileStream.bytesSentAtError
        THEN /\ res.headWrites = 1
             /\ res.statusCode \in {200, 206}
             /\ res.destroyed
        ELSE /\ res.statusCode = 500
             /\ res.ended

\* C12: within one request the status and headers are written at most once,
\* and no body byte is in the response unless they were written.
C12_HeadWrittenOnce ==
    /\ res.headWrites <= 1
    /\ res.headersSent => res.headWrites = 1
    /\ (res.flushed \/ res.body # "") => res.headersSent

\* the client closed the connection after the head was written: the catch
\* of streamFile ran, the read stream opened the file and its 'error'
\* listener ran, and neither wrote a second head
C12_Witness ==
    /\ pc = "done"
    /\ res.closed
    /\ result = "true"
    /\ fileStream.opened
    /\ fileStream.error = PrematureClose
    /\ res.headersSent
    /\ res.headWrites = 1
    /\ res.destroyed

\* a request path made of separators only
IsMountRoot(p) == \A i \in 1..Len(p) : p[i] = "/"

\* C16: a request for the mount root without a Range header, with
\* dlc/DLCIndex.zip a regular file under the primary root, is answered 200
\* from that file with Content-Type application/zip, Content-Length the file
\* size and no Content-Encoding, whatever Accept-Encoding says.
C16_MountRootServesIndex ==
    ( /\ pc \in {"pipeline", "finishing", "done"}
      /\ IsMountRoot(req.path)
      /\ ~req.range.present
      /\ unlinks = 0
      /\ Kind(baseDirectory \o DefaultResource) = "file" ) =>
        /\ filePath = baseDirectory \o DefaultResource
        /\ res.headersSent
        /\ res.statusCode = 200
        /\ res.contentType = {"application/zip"}
        /\ res.contentLength = {Num(fileSize)}
        /\ res.contentEncoding = {}
        /\ ~fileStream.gzip

\* the mount root asked as // by a client that accepts gzip, the index file
\* above the gzip minimum size: served whole and unencoded
C16_Witness ==
    /\ pc = "done"
    /\ req.path = <<"/", "/">>
    /\ ~req.range.present
    /\ Truthy(req.acceptEncoding)
    /\ Includes(req.acceptEncoding.value, <<"g","z","i","p">>)
    /\ fileSize > MinGzipSize
    /\ filePath = baseDirectory \o DefaultResource
    /\ res.ended
    /\ res.statusCode = 200
    /\ res.body = "file"
    /\ res.contentEncoding = {}

\* C18: a /static request whose handler has run to its end, the client still
\* connected, has received a response, also when the chosen file was removed
\* between the isFile check and the stat of streamFile.
C18_HandlerAlwaysResponds ==
    (pc = "done" /\ ~res.closed) => res.headersSent

\* C13: the connection counter of every worker, and every count it sends,
\* is a non-negative integer.
C13_CounterNonNegative ==
    \A w \in WorkerIds :
        /\ activeConnections[w] >= 0
        /\ lastSent[w] >= 0
        /\ \A i \in DOMAIN channel[w] : channel[w][i] >= 0

\* C14: while the supervisor runs, the live workers and the exits it has
\* not yet handled add up to N = max(2, CPU count); every handled exit,
\* whatever its code or signal and however many exits came before, forks
\* exactly one replacement; and whenever fewer than N workers are live, the
\* live workers are N again later, unless the supervisor itself ends.
C14_OneReplacementPerExit ==
    /\ [](master = "running" =>
            /\ Cardinality(workers) + Cardinality(exitEvents) = Max(2, cpus)
            /\ nextWorkerId \notin workers
            /\ exitEvents \cap workers = {})
    /\ [][(master' = "running" /\ exitEvents' # exitEvents /\ exitEvents' \subseteq exitEvents) =>
            /\ Cardinality(exitEvents') = Cardinality(exitEvents) - 1
            /\ workers' = workers \cup {nextWorkerId}
            /\ Cardinality(workers') = Cardinality(workers) + 1]_vars
    /\ ((master = "running" /\ Cardinality(workers) < Max(2, cpus))
            ~> (master = "terminated" \/ Cardinality(workers) = Max(2, cpus)))

\* on three CPUs three exits were handled, the second and the third the
\* exits of replacements: the third replacement is live and the workers are
\* 3 again
C14_Witness ==
    /\ master = "running"
    /\ cpus = 3
    /\ exitEvents = {}
    /\ nextWorkerId = 7
    /\ 4 \notin workers
    /\ 5 \notin workers
    /\ 6 \in workers
    /\ Cardinality(workers) = 3

\* C15: every step that changes the connection counter of a live worker
\* sends one CONNECTION_COUNT message with the new value (while the
\* supervisor runs it is appended to the worker's channel, behind the
\* messages not yet read), and the last count sent equals the counter.
C15_EveryChangeSent ==
    [][\A w \in workers' :
          /\ (master = "running" /\ activeConnections'[w] # activeConnections[w]) =>
                 channel'[w] = Append(channel[w], activeConnections'[w])
          /\ lastSent'[w] = activeConnections'[w]]_vars

\* a request began, finished and closed on a worker before the supervisor
\* read any of its three messages, and a second request is open
C15_Witness ==
    \E w \in workers :
        /\ master = "running"
        /\ Len(requests[w]) = 2
        /\ requests[w][1].state = "closed"
        /\ requests[w][1].decrements = 2
        /\ requests[w][2].state = "active"
        /\ Len(channel[w]) = 4
        /\ lastSent[w] = activeConnections[w]

\* C17: a supervisor-initiated shutdown cuts no transfer in flight (the
\* program has no grace timer, so a transfer cut at shutdown is cut before
\* any grace period has elapsed).
C17_ShutdownDrains ==
    \A w \in WorkerIds : \A i \in DOMAIN requests[w] : requests[w][i].state # "cut"

\* C19: a CONNECTION_COUNT message of a live replacement worker that leaves
\* the channel is received by the supervisor and becomes its total.
C19_ReplacementCounted ==
    [][\A w \in workers \cap workers' :
          (w > Max(2, cpus) /\ channel[w] # <<>> /\ channel'[w] = Tail(channel[w])) =>
              /\ totalConnections' = Head(channel[w])
              /\ latest'[w] = Head(channel[w])]_vars

====
